---- MODULE Spec2Model ----
(***************************************************************************)
(* A model of scripts/build_json.py: the configuration parser, the fetch   *)
(* loop with its accumulation table, the reset of the output directory and *)
(* the write loop.                                                         *)
(*                                                                         *)
(* Text is a sequence of characters; a character is a one-character string *)
(* ("NUL" stands for the character with code 0).  A dictionary is a        *)
(* function whose domain is the set of its keys.                           *)
(***************************************************************************)
EXTENDS Integers, Sequences, FiniteSets, TLC

VARIABLES
  pc,               \* position of the main program
  conf,             \* the lines of the configuration file, as readlines() gives them
  minrev, maxrev,   \* int(minrev), int(maxrev)
  broken_ids, skipped_ids,
  network,          \* what urlopen()/read() can answer in this run
  dirout,           \* the path dirout on disk: its kind and, for a directory, its files
  urls_by_category, \* ordered dictionary: sequence of [cat, contribs]
  cat_i, contrib_i, \* position of the two nested for loops
  contribs_by_id,   \* ordered dictionary: sequence of [id, exports]
  opened,           \* the log of "Opening <url>": the contribution, its category,
                    \* what the network answered and whether the table took it
  resets,           \* number of times lines 305-308 ran
  write_i,          \* position of the write loop
  written,          \* the files opened for writing, in order: [file, id]
  raised            \* the exception that ended the run, or "none"

vars == << pc, conf, minrev, maxrev, broken_ids, skipped_ids, network, dirout,
           urls_by_category, cat_i, contrib_i, contribs_by_id, opened, resets,
           write_i, written, raised >>

(***************************************************************************)
(* Python string primitives                                                *)
(***************************************************************************)
Whitespace == {" ", "\t", "\n", "\r"}

RECURSIVE LStrip(_)
LStrip(s) == IF s # <<>> /\ Head(s) \in Whitespace THEN LStrip(Tail(s)) ELSE s

RECURSIVE RStrip(_)
RStrip(s) ==
  IF s # <<>> /\ s[Len(s)] \in Whitespace THEN RStrip(SubSeq(s, 1, Len(s) - 1)) ELSE s

\* str.strip()
Strip(s) == RStrip(LStrip(s))

\* str.find(c): the 1-based index of the first c, 0 when there is none (Python: -1)
Find(s, c) ==
  IF \E i \in 1..Len(s) : s[i] = c
  THEN CHOOSE i \in 1..Len(s) : s[i] = c /\ \A j \in 1..(i - 1) : s[j] # c
  ELSE 0

\* str.rfind(c)
RFind(s, c) ==
  IF \E i \in 1..Len(s) : s[i] = c
  THEN CHOOSE i \in 1..Len(s) : s[i] = c /\ \A j \in (i + 1)..Len(s) : s[j] # c
  ELSE 0

\* str.split(c): the pieces between every occurrence of c
RECURSIVE Split(_, _)
Split(s, c) ==
  LET i == Find(s, c)
  IN  IF i = 0 THEN << s >>
      ELSE << SubSeq(s, 1, i - 1) >> \o Split(SubSeq(s, i + 1, Len(s)), c)

\* ''.join(s.split()): s without its whitespace
RECURSIVE RemoveWhitespace(_)
RemoveWhitespace(s) ==
  IF s = <<>> THEN <<>>
  ELSE IF Head(s) \in Whitespace THEN RemoveWhitespace(Tail(s))
       ELSE << Head(s) >> \o RemoveWhitespace(Tail(s))

LowerOf == [c \in {"A", "B", "L", "S", "V"} |->
              CASE c = "A" -> "a" [] c = "B" -> "b" [] c = "L" -> "l"
                [] c = "S" -> "s" [] c = "V" -> "v"]

\* str.lower()
Lower(s) == [i \in 1..Len(s) |-> IF s[i] \in DOMAIN LowerOf THEN LowerOf[s[i]] ELSE s[i]]

(***************************************************************************)
(* get_lib_locations                                                       *)
(***************************************************************************)
\* line 163-164: the line with its comment removed
CommentStripped(line) ==
  LET hash == Find(line, "#")
  IN  IF hash = 0 THEN Strip(line) ELSE SubSeq(line, 1, hash - 1)

\* lines 193-195: append to the list of the category, a new key goes last
AppendContrib(urls, category, contrib) ==
  IF \E i \in 1..Len(urls) : urls[i].cat = category
  THEN [i \in 1..Len(urls) |->
          IF urls[i].cat = category
          THEN [urls[i] EXCEPT !.contribs = Append(@, contrib)]
          ELSE urls[i]]
  ELSE Append(urls, [cat |-> category, contribs |-> << contrib >>])

\* lines 163-195: one iteration of the loop over the lines.  st.open is
\* "software_type and category are not None" (they are set and cleared together).
ReadLine(st, rawline) ==
  LET line == CommentStripped(rawline)
  IN  IF Len(line) = 0 THEN st
      ELSE IF line[1] = "[" /\ line[Len(line)] = "]"
      THEN LET contents == Split(SubSeq(line, 2, Len(line) - 1), ":")
           IN  IF Len(contents) = 2
               THEN [st EXCEPT !.open = TRUE,
                               !.software_type = Lower(RemoveWhitespace(Strip(contents[1]))),
                               !.category = Strip(contents[2])]
               ELSE [st EXCEPT !.open = FALSE, !.software_type = <<>>, !.category = <<>>]
      ELSE IF ~st.open THEN st
      ELSE LET contents == Split(line, "\\")
           IN  IF Len(contents) # 2 THEN st
               ELSE [st EXCEPT !.urls =
                       AppendContrib(@, st.category,
                                     [software_type |-> st.software_type,
                                      id |-> Strip(contents[1]),
                                      url |-> Strip(contents[2])])]

RECURSIVE ReadLines(_, _)
ReadLines(st, lines) ==
  IF lines = <<>> THEN st ELSE ReadLines(ReadLine(st, Head(lines)), Tail(lines))

get_lib_locations(lines) ==
  ReadLines([open |-> FALSE, software_type |-> <<>>, category |-> <<>>, urls |-> <<>>],
            lines).urls

(***************************************************************************)
(* Dictionaries                                                            *)
(***************************************************************************)
Put(d, k, v) == [x \in (DOMAIN d) \cup {k} |-> IF x = k THEN v ELSE d[x]]

EmptyDict == [x \in {} |-> <<>>]

(***************************************************************************)
(* read_exports.  A descriptor is the sequence of its attr=value lines, as *)
(* [attr, val]; the renaming of line 83 is applied to the attribute names. *)
(***************************************************************************)
Renamed(attr) ==
  CASE attr = "authorList" -> "authors"
    [] attr = "category" -> "categories"
    [] attr = "compatibleModesList" -> "modes"
    [] OTHER -> attr

RECURSIVE ExportTable(_, _)
ExportTable(table, lines) ==
  IF lines = <<>> THEN table
  ELSE ExportTable(Put(table, Renamed(Head(lines).attr), Strip(Head(lines).val)),
                   Tail(lines))

read_exports(lines) == ExportTable(EmptyDict, lines)

(***************************************************************************)
(* int() of a string of the descriptor: an optional sign and decimal       *)
(* digits; anything else raises ValueError.                                *)
(***************************************************************************)
DigitVal == [c \in {"0", "1", "2", "3", "4", "5", "6", "7", "8", "9"} |->
               CASE c = "0" -> 0 [] c = "1" -> 1 [] c = "2" -> 2 [] c = "3" -> 3
                 [] c = "4" -> 4 [] c = "5" -> 5 [] c = "6" -> 6 [] c = "7" -> 7
                 [] c = "8" -> 8 [] c = "9" -> 9]

Digits(s) == IF s # <<>> /\ Head(s) \in {"+", "-"} THEN Tail(s) ELSE s

IsInt(s) ==
  LET t == Strip(s)
  IN  Digits(t) # <<>> /\ \A i \in 1..Len(Digits(t)) : Digits(t)[i] \in DOMAIN DigitVal

RECURSIVE Magnitude(_, _)
Magnitude(acc, s) ==
  IF s = <<>> THEN acc ELSE Magnitude(10 * acc + DigitVal[Head(s)], Tail(s))

ToInt(s) ==
  LET t == Strip(s)
  IN  IF Head(t) = "-" THEN 0 - Magnitude(0, Digits(t)) ELSE Magnitude(0, Digits(t))

(***************************************************************************)
(* One contribution of the fetch loop, lines 243-302                       *)
(***************************************************************************)
Rev0 == << "0" >>
Rev228 == << "2", "2", "8" >>
DotZip == << ".", "z", "i", "p" >>

\* line 249: prop_url[:prop_url.rfind('.')] + '.zip' (rfind gives -1 without a '.')
DownloadUrl(prop_url) ==
  LET dot == RFind(prop_url, ".")
  IN  (IF dot = 0 THEN SubSeq(prop_url, 1, Len(prop_url) - 1)
       ELSE SubSeq(prop_url, 1, dot - 1)) \o DotZip

\* lines 254-260
InjectContext(exports, contrib, cat) ==
  Put(Put(Put(Put(exports, "id", contrib.id), "type", contrib.software_type),
          "props", contrib.url), "categories", cat)

\* lines 263-264
DefaultMinRevision(exports) ==
  IF "minRevision" \notin DOMAIN exports \/ exports["minRevision"] = <<>>
  THEN Put(exports, "minRevision", Rev0)
  ELSE exports

\* faulty variant of DefaultMaxRevision: the form left commented out at lines
\* 265-269, which forces '228' only when the descriptor gives no maxRevision
DefaultMaxRevision_OnlyWhenMissing(exports, contrib_id, broken) ==
  IF "maxRevision" \notin DOMAIN exports \/ exports["maxRevision"] = <<>>
  THEN Put(exports, "maxRevision", IF contrib_id \in broken THEN Rev228 ELSE Rev0)
  ELSE exports

\* lines 270-274
DefaultMaxRevision(exports, contrib_id, broken) ==
  IF contrib_id \in broken THEN Put(exports, "maxRevision", Rev228)
  ELSE IF "maxRevision" \notin DOMAIN exports \/ exports["maxRevision"] = <<>>
       THEN Put(exports, "maxRevision", Rev0)
       ELSE exports

required_keys == << "name", "authors", "url", "categories", "sentence", "version" >>

\* faulty variant of missing_key: 'version' left out of required_keys
missing_key_NoVersion(exports) ==
  IF \E i \in 1..(Len(required_keys) - 1) : required_keys[i] \notin DOMAIN exports
  THEN required_keys[CHOOSE i \in 1..(Len(required_keys) - 1) :
                        /\ required_keys[i] \notin DOMAIN exports
                        /\ \A j \in 1..(i - 1) : required_keys[j] \in DOMAIN exports]
  ELSE "None"

\* lines 199-205: the first required key the dictionary lacks, "None" without one
missing_key(exports) ==
  IF \E i \in 1..Len(required_keys) : required_keys[i] \notin DOMAIN exports
  THEN required_keys[CHOOSE i \in 1..Len(required_keys) :
                        /\ required_keys[i] \notin DOMAIN exports
                        /\ \A j \in 1..(i - 1) : required_keys[j] \in DOMAIN exports]
  ELSE "None"

\* the keys of the model that re.compile('download.*').match accepts
DownloadKeys == {"download", "downloadUrl"}

\* lines 282-284
DefaultDownload(exports, prop_url) ==
  IF (DOMAIN exports) \cap DownloadKeys = {}
  THEN Put(exports, "download", DownloadUrl(prop_url))
  ELSE exports

\* faulty variant of LowerSide: `<` for `<=`
LowerSide_Strict(minr, exports) ==
  IF minr = 0 THEN "True"
  ELSE IF ~IsInt(exports["maxRevision"]) THEN "ValueError"
  ELSE IF ToInt(exports["maxRevision"]) = 0 THEN "True"
  ELSE IF minr < ToInt(exports["maxRevision"]) THEN "True" ELSE "False"

\* line 287, left operand of the `and`, evaluated left to right
LowerSide(minr, exports) ==
  IF minr = 0 THEN "True"
  ELSE IF ~IsInt(exports["maxRevision"]) THEN "ValueError"
  ELSE IF ToInt(exports["maxRevision"]) = 0 THEN "True"
  ELSE IF minr <= ToInt(exports["maxRevision"]) THEN "True" ELSE "False"

\* line 288, right operand of the `and`
UpperSide(maxr, exports) ==
  IF maxr = 0 THEN "True"
  ELSE IF ~IsInt(exports["minRevision"]) THEN "ValueError"
  ELSE IF ToInt(exports["minRevision"]) = 0 THEN "True"
  ELSE IF maxr >= ToInt(exports["minRevision"]) THEN "True" ELSE "False"

\* lines 287-288: "True", "False" or "ValueError"
Compatible(minr, maxr, exports) ==
  IF LowerSide(minr, exports) = "True" THEN UpperSide(maxr, exports)
  ELSE LowerSide(minr, exports)

\* a dictionary of the table: `top` holds the keys whose value is a string; the
\* lists that format_exports makes are kept apart
RawEntry(contrib_id, exports) ==
  [id |-> contrib_id, formatted |-> FALSE, top |-> exports, authors |-> <<>>,
   categories |-> [null |-> FALSE, list |-> <<>>], packages |-> <<>>]

HasId(table, contrib_id) == \E i \in 1..Len(table) : table[i].id = contrib_id

\* faulty variant of Accumulate: the category appended without the ","
Accumulate_NoComma(table, contrib_id, exports, cat) ==
  IF ~HasId(table, contrib_id)
  THEN Append(table, RawEntry(contrib_id, exports))
  ELSE [i \in 1..Len(table) |->
          IF table[i].id = contrib_id
          THEN [table[i] EXCEPT !.top = Put(@, "categories", @["categories"] \o cat)]
          ELSE table[i]]

\* faulty variant of Accumulate: the later dictionary replaces the record
Accumulate_Replace(table, contrib_id, exports, cat) ==
  IF ~HasId(table, contrib_id)
  THEN Append(table, RawEntry(contrib_id, exports))
  ELSE [i \in 1..Len(table) |->
          IF table[i].id = contrib_id THEN RawEntry(contrib_id, exports) ELSE table[i]]

\* lines 289-294
Accumulate(table, contrib_id, exports, cat) ==
  IF ~HasId(table, contrib_id)
  THEN Append(table, RawEntry(contrib_id, exports))
  ELSE [i \in 1..Len(table) |->
          IF table[i].id = contrib_id
          THEN [table[i] EXCEPT !.top = Put(@, "categories", @["categories"] \o << "," >> \o cat)]
          ELSE table[i]]

\* lines 252-274: the dictionary the checks of lines 276-288 see
Prepared(lines, contrib, cat, broken) ==
  DefaultMaxRevision(DefaultMinRevision(InjectContext(read_exports(lines), contrib, cat)),
                     contrib.id, broken)

\* lines 250-302 for the answer `result` of the network: the new table and the
\* exception that leaves the loop ("none" when the loop goes on)
AfterContrib(table, contrib, cat, result, minr, maxr, broken) ==
  IF result.kind = "IOError" THEN [table |-> table, raised |-> "none"]
  ELSE IF result.kind = "invalid utf-8" THEN [table |-> table, raised |-> "none"]
  ELSE LET exports == Prepared(result.lines, contrib, cat, broken)
       IN  IF missing_key(exports) # "None" THEN [table |-> table, raised |-> "none"]
           ELSE LET full == DefaultDownload(exports, contrib.url)
                    ok == Compatible(minr, maxr, full)
                IN  IF ok = "ValueError" THEN [table |-> table, raised |-> "ValueError"]
                    ELSE IF ok = "True"
                    THEN [table |-> Accumulate(table, contrib.id, full, cat),
                          raised |-> "none"]
                    ELSE [table |-> table, raised |-> "none"]

(***************************************************************************)
(* format_exports and write_exports                                        *)
(***************************************************************************)
package_keys == << "minRevision", "maxRevision", "props", "download" >>
remove_keys == {"version", "prettyVersion"}
Java == << "j", "a", "v", "a" >>

\* lines 112-118: the split list (the strip of line 115 is thrown away), or None
FormatCategories(top) ==
  IF "categories" \in DOMAIN top /\ top["categories"] # <<>>
  THEN [null |-> FALSE, list |-> Split(top["categories"], ",")]
  ELSE [null |-> TRUE, list |-> <<>>]

\* lines 120-128
PackageJava(top) ==
  [k \in {"mode"} \cup ({package_keys[i] : i \in 1..Len(package_keys)} \cap DOMAIN top) |->
     IF k = "mode" THEN Java ELSE top[k]]

\* lines 105-135
format_exports(e) ==
  [id |-> e.id,
   formatted |-> TRUE,
   top |-> [k \in (DOMAIN e.top) \ ({"authors", "categories"} \cup remove_keys
                                    \cup {package_keys[i] : i \in 1..Len(package_keys)}) |->
              e.top[k]],
   authors |-> IF "authors" \in DOMAIN e.top THEN << e.top["authors"] >> ELSE <<>>,
   categories |-> FormatCategories(e.top),
   packages |-> << PackageJava(e.top) >>]

blacklist == {"\\", "/", ":", "*", "?", "\"", "<", ">", "|", "NUL"}
\* the characters of the model with ord(c) <= 31
ControlChars == {"\t", "\n", "\r", "NUL"}

RECURSIVE Without(_, _)
Without(s, chars) ==
  IF s = <<>> THEN <<>>
  ELSE IF Head(s) \in chars THEN Without(Tail(s), chars)
       ELSE << Head(s) >> \o Without(Tail(s), chars)

DotJson == << ".", "j", "s", "o", "n" >>

\* lines 142-148
Filename(name) ==
  LET kept == Without(Without(Strip(name), blacklist), ControlChars)
  IN  [i \in 1..Len(kept) |-> IF kept[i] = " " THEN "_" ELSE kept[i]] \o DotJson

\* lines 150-151: open(filepath, 'w') and json.dump
WriteFile(files, file, content) ==
  [f \in (DOMAIN files) \cup {file} |-> IF f = file THEN content ELSE files[f]]

\* lines 305-308
ResetDirout(d) ==
  IF d.kind = "file" THEN d ELSE [kind |-> "dir", files |-> EmptyDict]

(***************************************************************************)
(* The inputs of a run                                                     *)
(***************************************************************************)
MaxPerCategory == 1

Ids == { << "1" >>, << "2" >> }
Sound == << "S" >>
Vision == << "V" >>
CatNames == { Sound, Vision, << "A", ",", "B" >> }

Url(id) == << "h", "/" >> \o id \o << ".", "t" >>
Header(cat) == << "[", "L", " ", "b", " ", ":", " " >> \o cat \o << "]", "\n" >>
ContribLine(id) == id \o << " ", "\\", " " >> \o Url(id) \o << "\n" >>
Section(cat, ids) == << Header(cat) >> \o [i \in 1..Len(ids) |-> ContribLine(ids[i])]

IdLists(n) == UNION { [1..k -> Ids] : k \in 0..n }
Confs(cats, n) ==
  { Section(c1, l1) \o Section(c2, l2) : c1 \in cats, c2 \in cats,
                                          l1 \in IdLists(n), l2 \in IdLists(n) }

\* names of contributions: the first two give the same file name
Names == { << "a", " ", "b" >>, << " ", "a", "/", "_", "b" >>, << "c", ":", "\t" >> }

Absent == [present |-> FALSE, val |-> <<>>]
Given(v) == [present |-> TRUE, val |-> v]

Line(attr, v) == IF v.present THEN << [attr |-> attr, val |-> v.val] >> ELSE <<>>

\* the lines of a descriptor, without the line of the attribute `without`
Descriptor(name, without, minR, maxR) ==
  LET all == << [attr |-> "name", val |-> name],
                [attr |-> "authorList", val |-> << "J" >>],
                [attr |-> "url", val |-> << "h" >>],
                [attr |-> "category", val |-> << "D" >>],
                [attr |-> "sentence", val |-> << "d" >>],
                [attr |-> "version", val |-> << "1" >>] >>
  IN  SelectSeq(all, LAMBDA l : l.attr # without)
        \o Line("minRevision", minR) \o Line("maxRevision", maxR)

Bytes(lines) == [kind |-> "utf-8", lines |-> lines]
Failure(kind) == [kind |-> kind, lines |-> <<>>]

MinRevisionValues ==
  { Absent, Given(<<>>), Given(<< "3", "0", "0" >>), Given(<< "3", "0", "1" >>),
    Given(<< "x" >>) }
MaxRevisionValues ==
  { Absent, Given(<<>>), Given(<< "2", "2", "7" >>), Given(Rev228), Given(<< "x" >>) }

MinRevs == {0, 228}
MaxRevs == {0, 100, 300}

OldDir == [kind |-> "dir",
           files |-> [f \in { << "o" >> \o DotJson } |-> RawEntry(<< "0" >>, EmptyDict)]]
NoDir == [kind |-> "absent", files |-> EmptyDict]
NotADir == [kind |-> "file", files |-> EmptyDict]

Scenario(c, mn, mx, b, s, n, d) ==
  [conf |-> c, minrev |-> mn, maxrev |-> mx, broken_ids |-> b, skipped_ids |-> s,
   network |-> n, dirout |-> d]

\* the defaults of lines 212-213, every configuration, names that collide
NameScenarios ==
  { Scenario(c, 228, 0, {}, s, { Bytes(Descriptor(n, "", Absent, Absent)) : n \in Names },
             OldDir) :
      c \in Confs(CatNames, MaxPerCategory), s \in SUBSET Ids }

RevisionConfs ==
  { Section(Sound, l1) \o Section(Vision, l2) : l1 \in IdLists(1), l2 \in IdLists(1) }

\* every revision range against every pair of revision strings
RevisionScenarios ==
  { Scenario(c, mn, mx, b, {}, { Bytes(Descriptor(<< "c" >>, "", a, z)) }, OldDir) :
      c \in RevisionConfs, mn \in MinRevs, mx \in MaxRevs, b \in SUBSET Ids,
      a \in MinRevisionValues, z \in MaxRevisionValues }

\* every way a contribution fails, every state of the output path
FailureScenarios ==
  { Scenario(c, 228, 0, {}, {},
             { Failure("IOError"), Failure("invalid utf-8"),
               Bytes(Descriptor(<< "c" >>, "", Absent, Absent)) }
               \cup { Bytes(Descriptor(<< "c" >>, k, Absent, Absent)) :
                        k \in {"name", "authorList", "url", "sentence", "version"} },
             d) :
      c \in Confs({Sound, Vision}, 1), d \in {OldDir, NoDir, NotADir} }

Scenarios == NameScenarios \cup RevisionScenarios \cup FailureScenarios

(***************************************************************************)
(* The main program, lines 207-313                                         *)
(***************************************************************************)
Init ==
  \E sc \in Scenarios :
    /\ conf = sc.conf
    /\ minrev = sc.minrev
    /\ maxrev = sc.maxrev
    /\ broken_ids = sc.broken_ids
    /\ skipped_ids = sc.skipped_ids
    /\ network = sc.network
    /\ dirout = sc.dirout
    /\ pc = "start"
    /\ urls_by_category = <<>>
    /\ cat_i = 1
    /\ contrib_i = 1
    /\ contribs_by_id = <<>>
    /\ opened = <<>>
    /\ resets = 0
    /\ write_i = 1
    /\ written = <<>>
    /\ raised = "none"

\* lines 224-226
ExitIncompatible ==
  /\ pc = "start"
  /\ maxrev # 0 /\ maxrev < 228
  /\ pc' = "exit"
  /\ UNCHANGED << conf, minrev, maxrev, broken_ids, skipped_ids, network, dirout,
                  urls_by_category, cat_i, contrib_i, contribs_by_id, opened, resets,
                  write_i, written, raised >>

\* lines 228-237
ReadConfig ==
  /\ pc = "start"
  /\ ~(maxrev # 0 /\ maxrev < 228)
  /\ urls_by_category' = get_lib_locations(conf)
  /\ pc' = "fetch"
  /\ UNCHANGED << conf, minrev, maxrev, broken_ids, skipped_ids, network, dirout,
                  cat_i, contrib_i, contribs_by_id, opened, resets, write_i, written,
                  raised >>

InLoop == pc = "fetch" /\ cat_i <= Len(urls_by_category)
Cat == urls_by_category[cat_i].cat
Contrib == urls_by_category[cat_i].contribs[contrib_i]

\* the next iteration of `for cat ...: for contrib ...:`
NextContrib ==
  IF contrib_i < Len(urls_by_category[cat_i].contribs)
  THEN cat_i' = cat_i /\ contrib_i' = contrib_i + 1
  ELSE cat_i' = cat_i + 1 /\ contrib_i' = 1

\* faulty variant of Skipped: looks the id up in the other list
Skipped_InBrokenList(contrib_id) == contrib_id \in broken_ids

\* line 245
Skipped(contrib_id) == contrib_id \in skipped_ids

\* lines 243-247
SkipContrib ==
  /\ InLoop
  /\ Skipped(Contrib.id)
  /\ NextContrib
  /\ UNCHANGED << pc, conf, minrev, maxrev, broken_ids, skipped_ids, network, dirout,
                  urls_by_category, contribs_by_id, opened, resets, write_i, written,
                  raised >>

\* lines 243-302 for a contribution that is not skipped
FetchContrib ==
  /\ InLoop
  /\ ~Skipped(Contrib.id)
  /\ \E result \in network :
       LET after == AfterContrib(contribs_by_id, Contrib, Cat, result, minrev, maxrev,
                                 broken_ids)
       IN  /\ opened' = Append(opened, [contrib |-> Contrib, cat |-> Cat,
                                         answer |-> result,
                                         accepted |-> after.table # contribs_by_id])
           /\ contribs_by_id' = after.table
           /\ raised' = after.raised
           /\ IF after.raised = "none"
              THEN NextContrib /\ pc' = pc
              ELSE pc' = "aborted" /\ UNCHANGED << cat_i, contrib_i >>
  /\ UNCHANGED << conf, minrev, maxrev, broken_ids, skipped_ids, network, dirout,
                  urls_by_category, resets, write_i, written >>

\* faulty variant of LoopDone: the outer loop left after its first category
LoopDone_AfterFirstCategory == cat_i > 1

\* lines 239-242: both for loops are exhausted
LoopDone == cat_i > Len(urls_by_category)

\* lines 304-308
ResetDir ==
  /\ pc = "fetch"
  /\ LoopDone
  /\ dirout' = ResetDirout(dirout)
  /\ resets' = resets + 1
  /\ pc' = "write"
  /\ UNCHANGED << conf, minrev, maxrev, broken_ids, skipped_ids, network,
                  urls_by_category, cat_i, contrib_i, contribs_by_id, opened, write_i,
                  written, raised >>

\* lines 311-313 for one contribution
WriteContrib ==
  /\ pc = "write"
  /\ write_i <= Len(contribs_by_id)
  /\ LET exports == format_exports(contribs_by_id[write_i])
         file == Filename(contribs_by_id[write_i].top["name"])
     IN  /\ contribs_by_id' = [contribs_by_id EXCEPT ![write_i] = exports]
         /\ IF dirout.kind = "dir"
            THEN /\ dirout' = [dirout EXCEPT !.files = WriteFile(@, file, exports)]
                 /\ written' = Append(written, [file |-> file, id |-> exports.id])
                 /\ write_i' = write_i + 1
                 /\ UNCHANGED << pc, raised >>
            ELSE /\ pc' = "aborted"
                 /\ raised' = "OSError"
                 /\ UNCHANGED << dirout, written, write_i >>
  /\ UNCHANGED << conf, minrev, maxrev, broken_ids, skipped_ids, network,
                  urls_by_category, cat_i, contrib_i, opened, resets >>

\* the end of the write loop
Finish ==
  /\ pc = "write"
  /\ write_i > Len(contribs_by_id)
  /\ pc' = "done"
  /\ UNCHANGED << conf, minrev, maxrev, broken_ids, skipped_ids, network, dirout,
                  urls_by_category, cat_i, contrib_i, contribs_by_id, opened, resets,
                  write_i, written, raised >>

Next ==
  \/ ExitIncompatible
  \/ ReadConfig
  \/ SkipContrib
  \/ FetchContrib
  \/ ResetDir
  \/ WriteContrib
  \/ Finish

Spec == Init /\ [][Next]_vars

(***************************************************************************)
(* get_lib_locations on its own: every configuration text of up to         *)
(* MaxConfLines lines, each line a header, a broken header, a contribution *)
(* or nothing, with or without leading blank and trailing comment.         *)
(***************************************************************************)
MaxConfLines == 3

LineBodies ==
  { << "[", "L", ":", "S", "]" >>, << "[", "L", ":", "V", "]" >>, << "[", "L", "]" >>,
    << "1", "\\", "u" >>, <<>> }
LinePrefixes == { <<>>, << " " >> }
LineSuffixes == { <<>>, << "#", "c" >>, << " ", "#", " ", "c" >> }
ConfLines ==
  { p \o b \o x \o << "\n" >> : p \in LinePrefixes, b \in LineBodies, x \in LineSuffixes }
ConfTexts == UNION { [1..k -> ConfLines] : k \in 1..MaxConfLines }

InitConf ==
  /\ conf \in ConfTexts
  /\ minrev = 228
  /\ maxrev = 0
  /\ broken_ids = {}
  /\ skipped_ids = {}
  /\ network = {}
  /\ dirout = NoDir
  /\ pc = "start"
  /\ urls_by_category = <<>>
  /\ cat_i = 1
  /\ contrib_i = 1
  /\ contribs_by_id = <<>>
  /\ opened = <<>>
  /\ resets = 0
  /\ write_i = 1
  /\ written = <<>>
  /\ raised = "none"

SpecConf == InitConf /\ [][ReadConfig]_vars

\* the line with its '#' and everything after it, up to the end of the line, deleted
CommentDeleted(line) ==
  LET hash == Find(line, "#")
  IN  IF hash = 0 THEN line ELSE SubSeq(line, 1, hash - 1) \o << "\n" >>

CommentsDeleted(lines) == [i \in 1..Len(lines) |-> CommentDeleted(lines[i])]

\* C4: get_lib_locations ignores everything from the first '#' of a line on: the
\* result for a configuration text is the result for the same text with the
\* comments deleted (so a header followed by a comment opens its category).
C4_CommentsAreIgnored ==
  pc = "fetch" => urls_by_category = get_lib_locations(CommentsDeleted(conf))

(***************************************************************************)
(* The claims about a run                                                  *)
(***************************************************************************)
Range(seq) == { seq[i] : i \in 1..Len(seq) }

RECURSIVE Flattened(_)
Flattened(urls) ==
  IF urls = <<>> THEN <<>> ELSE Head(urls).contribs \o Flattened(Tail(urls))

\* the contributions of the configuration, in the order of the fetch loop
ConfigContribs == Flattened(urls_by_category)

C1_State ==
  /\ \A i \in 1..Len(opened) : opened[i].contrib.id \notin skipped_ids
  /\ \A i \in 1..Len(contribs_by_id) : contribs_by_id[i].id \notin skipped_ids

C1_Step ==
  (InLoop /\ Contrib.id \in skipped_ids) =>
    (opened' = opened /\ contribs_by_id' = contribs_by_id)

\* C1: a contribution whose id is in skipped_ids is never opened and no record
\* of the table carries its id; the step of the loop that handles it opens
\* nothing and leaves the table as it is.
C1_SkippedNeverFetched == []C1_State /\ [][C1_Step]_vars

\* a finished run that passed a skipped contribution and opened another one
C1_Witness ==
  /\ pc = "done"
  /\ \E i \in 1..Len(ConfigContribs) : ConfigContribs[i].id \in skipped_ids
  /\ opened # <<>>
  /\ contribs_by_id # <<>>

\* C2: no exception leaves the fetch loop: whatever one contribution's fetch
\* answers and whatever its descriptor holds, the run reaches the reset of the
\* output directory.
C2_NoExceptionLeavesTheLoop == ~(pc = "aborted" /\ resets = 0)

\* C3: at the end of a run the output directory holds one file per record of the
\* table, and no two records were written to the same file.
C3_OneFilePerContribution ==
  pc = "done" =>
    /\ Cardinality(DOMAIN dirout.files) = Len(contribs_by_id)
    /\ \A j, k \in 1..Len(written) : written[j].file = written[k].file => j = k

\* the dictionary of a logged contribution as lines 276-288 see it
Record(e) == Prepared(e.answer.lines, e.contrib, e.cat, broken_ids)

MaxRevisionOf(e) ==
  IF e.formatted THEN e.packages[1]["maxRevision"] ELSE e.top["maxRevision"]

\* C5: every record of the table and every written file of an id in broken_ids
\* has maxRevision "228".
C5_BrokenIdsGet228 ==
  /\ \A i \in 1..Len(contribs_by_id) :
       contribs_by_id[i].id \in broken_ids => MaxRevisionOf(contribs_by_id[i]) = Rev228
  /\ \A f \in DOMAIN dirout.files :
       dirout.files[f].id \in broken_ids => MaxRevisionOf(dirout.files[f]) = Rev228

\* a finished run wrote a broken id whose descriptor said maxRevision=227
C5_Witness ==
  /\ pc = "done"
  /\ \E i \in 1..Len(opened), k \in 1..Len(written) :
       /\ opened[i].contrib.id \in broken_ids
       /\ written[k].id = opened[i].contrib.id
       /\ opened[i].answer.kind = "utf-8"
       /\ "maxRevision" \in DOMAIN read_exports(opened[i].answer.lines)
       /\ read_exports(opened[i].answer.lines)["maxRevision"] = << "2", "2", "7" >>

LacksRequired(e) ==
  /\ e.answer.kind = "utf-8"
  /\ LET keys == DOMAIN Record(e) IN \E k \in Range(required_keys) : k \notin keys

HasRequired(top) ==
  \A k \in {"name", "url", "sentence"} : k \in DOMAIN top

\* C6: a contribution whose dictionary lacks a required key is not taken by the
\* table (no insertion, no category appended), the loop goes on, and every
\* record of the table and every written file has the required keys
\* (format_exports turns authors and categories into lists and drops version).
C6_MissingKeyNeverStored ==
  /\ \A i \in 1..Len(opened) : LacksRequired(opened[i]) => ~opened[i].accepted
  /\ (opened # <<>> /\ LacksRequired(opened[Len(opened)])) => (resets = 0 => pc = "fetch")
  /\ \A i \in 1..Len(contribs_by_id) :
       LET e == contribs_by_id[i]
       IN  IF e.formatted THEN HasRequired(e.top) /\ e.authors # <<>>
           ELSE \A k \in Range(required_keys) : k \in DOMAIN e.top
  /\ \A k \in 1..Len(written) :
       LET e == dirout.files[written[k].file]
       IN  HasRequired(e.top) /\ e.authors # <<>>

\* a finished run met a descriptor without a required key and wrote another one
C6_Witness ==
  /\ pc = "done"
  /\ \E i \in 1..Len(opened) : LacksRequired(opened[i])
  /\ written # <<>>

\* a logged contribution with all required keys and integer revision strings
Qualifies(e) ==
  /\ e.answer.kind = "utf-8"
  /\ LET r == Record(e)
     IN  /\ \A k \in Range(required_keys) : k \in DOMAIN r
         /\ IsInt(r["minRevision"])
         /\ IsInt(r["maxRevision"])

\* the condition of inclusion as the specification words it
Included(e) ==
  LET r == Record(e)
      minRevision == ToInt(r["minRevision"])
      maxRevision == ToInt(r["maxRevision"])
  IN  /\ (minrev = 0 \/ maxRevision = 0 \/ minrev <= maxRevision)
      /\ (maxrev = 0 \/ minRevision = 0 \/ maxrev >= minRevision)

\* C7: a contribution with all required keys and integer revisions is taken by
\* the table exactly when (minrev = 0 or maxRevision = 0 or minrev <= maxRevision)
\* and (maxrev = 0 or minRevision = 0 or maxrev >= minRevision).
C7_IncludedIffInRange ==
  \A i \in 1..Len(opened) :
    Qualifies(opened[i]) => (opened[i].accepted <=> Included(opened[i]))

\* a run with both bounds set took a record at both edges of the range and
\* turned another one down
C7_Witness ==
  /\ minrev # 0 /\ maxrev # 0
  /\ \E i, j \in 1..Len(opened) :
       /\ Qualifies(opened[i]) /\ opened[i].accepted
       /\ ToInt(Record(opened[i])["maxRevision"]) = minrev
       /\ ToInt(Record(opened[i])["minRevision"]) = maxrev
       /\ Qualifies(opened[j]) /\ ~opened[j].accepted

\* the categories under which the table took the id, in the order of the loop
RECURSIVE CatsOf(_, _)
CatsOf(log, id) ==
  IF log = <<>> THEN <<>>
  ELSE (IF Head(log).contrib.id = id /\ Head(log).accepted THEN << Head(log).cat >>
        ELSE <<>>) \o CatsOf(Tail(log), id)

AcceptedCats(id) == CatsOf(opened, id)

RECURSIVE IsSubseq(_, _)
IsSubseq(a, b) ==
  IF a = <<>> THEN TRUE
  ELSE IF b = <<>> THEN FALSE
  ELSE IF Head(a) = Head(b) THEN IsSubseq(Tail(a), Tail(b))
  ELSE IsSubseq(a, Tail(b))

CommaFree(cat) == "," \notin Range(cat)

\* the value of `category` in every descriptor of the model
DescriptorCategory == << "D" >>

Records(id) == { i \in 1..Len(contribs_by_id) : contribs_by_id[i].id = id }
Writes(id) == { k \in 1..Len(written) : written[k].id = id }
TakenUnderTwo(id) == Cardinality(Range(AcceptedCats(id))) >= 2

\* C8 (as claimed): an id taken under two categories has one record and is written
\* once, and the categories list of what is written contains the names of its
\* categories, in the order of the loop, and not the descriptor's category.
C8_CategoriesListHasBothNames ==
  \A id \in Ids :
    TakenUnderTwo(id) =>
      /\ Cardinality(Records(id)) = 1
      /\ pc = "done" => Cardinality(Writes(id)) = 1
      /\ \A i \in Records(id) :
           contribs_by_id[i].formatted =>
             /\ IsSubseq(AcceptedCats(id), contribs_by_id[i].categories.list)
             /\ DescriptorCategory \notin Range(contribs_by_id[i].categories.list)

\* C8 (as amended): when no category name of the id holds a ',', the list is
\* exactly the names of its categories, in the order of the loop.
C8_CategoriesListOfCommaFreeNames ==
  \A id \in Ids :
    (TakenUnderTwo(id) /\ \A c \in Range(AcceptedCats(id)) : CommaFree(c)) =>
      /\ Cardinality(Records(id)) = 1
      /\ pc = "done" => Cardinality(Writes(id)) = 1
      /\ \A i \in Records(id) :
           contribs_by_id[i].formatted =>
             /\ ~contribs_by_id[i].categories.null
             /\ contribs_by_id[i].categories.list = AcceptedCats(id)
             /\ DescriptorCategory \notin Range(contribs_by_id[i].categories.list)

\* a finished run wrote an id taken under Sound and under Vision
C8_Witness ==
  /\ pc = "done"
  /\ \E id \in Ids :
       /\ AcceptedCats(id) \in { << Sound, Vision >>, << Vision, Sound >> }
       /\ Writes(id) # {}

Processed == Len(opened) + Cardinality({ i \in 1..Len(ConfigContribs) :
                                          ConfigContribs[i].id \in skipped_ids })

C9_State ==
  /\ resets <= 1
  /\ resets = 1 => Processed = Len(ConfigContribs)
  /\ written # <<>> => resets = 1
  /\ pc = "done" => resets = 1
  /\ (resets = 1 /\ dirout.kind # "file") =>
       /\ dirout.kind = "dir"
       /\ DOMAIN dirout.files = { written[k].file : k \in 1..Len(written) }

C9_Step == resets' = 0 => dirout' = dirout

\* C9: the output directory is reset once, after every contribution of the
\* configuration was opened or skipped and before the first file is written;
\* until then the path is left as it was.
C9_ResetOnceAfterTheLoop == []C9_State /\ [][C9_Step]_vars

\* a finished run that opened two contributions, emptied an old directory and
\* wrote a file
C9_Witness ==
  /\ pc = "done"
  /\ Len(opened) >= 2
  /\ written # <<>>
  /\ << "o" >> \o DotJson \notin DOMAIN dirout.files

\* an answer after which lines 276-294 must leave the table alone
Fails(e) ==
  \/ e.answer.kind # "utf-8"
  \/ LacksRequired(e)
  \/ Qualifies(e) /\ ~Included(e)

WithCategory(e, cat) ==
  [e EXCEPT !.top = Put(@, "categories", @["categories"] \o << "," >> \o cat)]

C10_Step ==
  pc = "fetch" =>
    /\ Len(contribs_by_id') >= Len(contribs_by_id)
    /\ \A i \in 1..Len(contribs_by_id) :
         \/ contribs_by_id'[i] = contribs_by_id[i]
         \/ /\ InLoop
            /\ contribs_by_id[i].id = Contrib.id
            /\ contribs_by_id'[i] = WithCategory(contribs_by_id[i], Cat)
    /\ Len(contribs_by_id') > Len(contribs_by_id) =>
         /\ Len(contribs_by_id') = Len(contribs_by_id) + 1
         /\ InLoop
         /\ ~HasId(contribs_by_id, Contrib.id)
         /\ contribs_by_id'[Len(contribs_by_id')].id = Contrib.id
    /\ (Len(opened') > Len(opened) /\ Fails(opened'[Len(opened')])) =>
         contribs_by_id' = contribs_by_id
    /\ raised' # "none" => contribs_by_id' = contribs_by_id

\* C10: while the loop runs, a step changes the record of the id it handles by
\* appending "," and the category at most, inserts a record only for an id
\* without one, removes none, and changes nothing when the contribution fails
\* or is out of range.
C10_LaterEntriesOnlyAppendCategory == [][C10_Step]_vars

\* the table took an id twice, from different descriptors
C10_Witness ==
  \E i, j \in 1..Len(opened) :
    /\ i < j
    /\ opened[i].contrib.id = opened[j].contrib.id
    /\ opened[i].accepted /\ opened[j].accepted
    /\ opened[i].answer # opened[j].answer

====
